---- MODULE Spec2Model ----
(***************************************************************************)
(* S3ToOneDrive: the Lambda handler of index.js, which downloads one S3    *)
(* object to /tmp, resolves a shared OneDrive folder by name and uploads   *)
(* the file into it.                                                       *)
(*                                                                         *)
(* Spec     one invocation of exports.handler, every await a step, the     *)
(*          S3 streams, the token endpoint, the Graph API and the file     *)
(*          system as the environment.                                     *)
(* SpecTwo  two invocations sharing /tmp and the clock, up to the point    *)
(*          where each has opened its download path.                       *)
(*                                                                         *)
(* Strings that the code takes apart (the object key) are sequences of     *)
(* one-character strings; strings it only passes on are TLA+ strings.      *)
(***************************************************************************)
EXTENDS Integers, Sequences, FiniteSets, TLC

\* ---------------------------------------------------------------- bounds
MaxKeyLen == 3      \* longest object key of an event
MaxSize == 1        \* largest size (bytes) of the downloaded file
MaxListLen == 1     \* longest sharedWithMe listing
MaxClock == 1       \* largest value Date.now() returns

\* ------------------------------------------------------------ vocabulary
Undefined == "undefined"

\* The characters of an object key: enough for a percent escape ("%2F",
\* "%22"), a broken one ("%", "%F2") and an extension (".2").
KeyChars == {"%", "2", "F", "."}

RECURSIVE SeqsUpTo(_, _)
SeqsUpTo(S, n) ==
    IF n = 0 THEN {<<>>}
    ELSE LET shorter == SeqsUpTo(S, n - 1)
         IN shorter \cup {Append(s, c) : s \in {t \in shorter : Len(t) = n - 1}, c \in S}

Keys == SeqsUpTo(KeyChars, MaxKeyLen)

Bucket == "my-s3-bucket"

\* process.env.ONEDRIVE_SHARED_FOLDER
FolderName == "Reports"

\* An event as the runtime delivers it: JSON with a Records array, which
\* may be empty.
Events ==
    {[Records |-> <<>>]}
    \cup {[Records |-> <<[s3 |-> [bucket |-> [name |-> Bucket], object |-> [key |-> k]]]>>] : k \in Keys}

\* ------------------------------------------------- decodeURIComponent
HexDigits == {"2", "F"}

HexVal(c) == IF c = "2" THEN 2 ELSE 15

\* The character of an ASCII byte (the bytes two digits of HexDigits give
\* below 0x80 are 0x22 and 0x2F).
CharOfByte(b) == IF b = 34 THEN "\"" ELSE "/"

URIMalformed == [ok |-> FALSE, str |-> <<>>]

\* decodeURIComponent: copies a character other than "%"; "%" must be
\* followed by two hex digits; a byte below 0x80 is its ASCII character; a
\* byte of 0x80 and above starts or continues a multi-byte UTF-8 sequence,
\* whose continuation bytes (0x80..0xBF) no escape over HexDigits can
\* write, so such an escape is a URIError here.
RECURSIVE decodeURIComponent(_)
decodeURIComponent(s) ==
    IF s = <<>> THEN [ok |-> TRUE, str |-> <<>>]
    ELSE IF Head(s) # "%"
    THEN LET rest == decodeURIComponent(Tail(s))
         IN IF rest.ok THEN [ok |-> TRUE, str |-> <<Head(s)>> \o rest.str]
            ELSE URIMalformed
    ELSE IF Len(s) < 3 \/ s[2] \notin HexDigits \/ s[3] \notin HexDigits
    THEN URIMalformed
    ELSE LET byte == 16 * HexVal(s[2]) + HexVal(s[3])
             rest == decodeURIComponent(SubSeq(s, 4, Len(s)))
         IN IF byte >= 128 \/ ~rest.ok THEN URIMalformed
            ELSE [ok |-> TRUE, str |-> <<CharOfByte(byte)>> \o rest.str]

\* ------------------------------------------------------- path.extname
\* The largest index in lo..hi whose character satisfies the test, 0 if none.
LastSlash(p, lo, hi) ==
    LET S == {i \in lo..hi : p[i] = "/"} IN IF S = {} THEN 0 ELSE CHOOSE i \in S : \A j \in S : j <= i

LastDot(p, lo, hi) ==
    LET S == {i \in lo..hi : p[i] = "."} IN IF S = {} THEN 0 ELSE CHOOSE i \in S : \A j \in S : j <= i

LastNonSlash(p) ==
    LET S == {i \in 1..Len(p) : p[i] # "/"} IN IF S = {} THEN 0 ELSE CHOOSE i \in S : \A j \in S : j <= i

\* path.extname (posix): trailing separators are skipped, the extension is
\* looked for in the last path component only, it starts at the last dot,
\* and there is none when the component has no dot, when its last dot is
\* its first character (".bashrc"), or when it is exactly "..".
extname(p) ==
    LET end == LastNonSlash(p)
        startPart == IF end = 0 THEN 1 ELSE LastSlash(p, 1, end) + 1
        startDot == IF end = 0 THEN 0 ELSE LastDot(p, startPart, end)
        preDotState == IF startDot = 0 \/ startDot = startPart THEN 0
                       ELSE IF p[startPart] = "." THEN 1 ELSE -1
    IN IF \/ startDot = 0
          \/ end = 0
          \/ preDotState = 0
          \/ (preDotState = 1 /\ startDot = end /\ startDot = startPart + 1)
       THEN <<>>
       ELSE SubSeq(p, startDot, end)

\* path.join("/tmp", `download-${timestamp}${originalExtension}`): the
\* timestamp is digits and the extension is empty or starts with a dot, so
\* the pair determines the string and the string the pair.
DownloadPath(timestamp, ext) == [dir |-> "/tmp", timestamp |-> timestamp, ext |-> ext]


\* ------------------------------------------------------------- axios
\* axios resolves a response whose status passes the default
\* validateStatus (2xx) and rejects every other one, and a request that got
\* no response (status 0 here), with an error carrying a message.
AxiosResolves(status) == status >= 200 /\ status < 300

AxiosErrorMessage(status) ==
    IF status = 0 THEN "Network Error"
    ELSE "Request failed with status code " \o ToString(status)

\* ------------------------------------------------------- environment
\* Bearer tokens the token endpoint issues.
Tokens == {"tokenA", "tokenB"}

\* What the token endpoint answers: 200 with an access_token, 200 without
\* one, another 2xx status, a refusal, or nothing (transport error).
TokenResponses ==
    {[status |-> 200, access_token |-> t] : t \in Tokens \cup {Undefined}}
    \cup {[status |-> s, access_token |-> Undefined] : s \in {0, 204, 401}}

\* One entry of a sharedWithMe listing; its remoteItem ids are its position.
Items == [name : {FolderName, "Other"}, folder : BOOLEAN]

Listings == SeqsUpTo(Items, MaxListLen)

NoListing == <<[name |-> "", folder |-> FALSE]>>

\* What the Graph API answers to the listing; it accepts a bearer token
\* only if the token endpoint issued it.
ListResponses(bearer) ==
    {[status |-> s, value |-> NoListing] : s \in {0, 401}}
    \cup (IF bearer \in Tokens THEN {[status |-> 200, value |-> l] : l \in Listings} ELSE {})

\* What the Graph API answers to the upload: a driveItem or an empty body
\* with 200 and 201, another 2xx status, a server error, or nothing.
PutResponses(bearer) ==
    {[status |-> s, data |-> "error"] : s \in {0, 401, 500}}
    \cup (IF bearer \in Tokens
          THEN {[status |-> s, data |-> d] : s \in {200, 201}, d \in {"driveItem", ""}}
               \cup {[status |-> 204, data |-> ""]}
          ELSE {})

\* ---------------------------------------------------------------- state
VARIABLES
    event,          \* the handler's argument
    clock,          \* what Date.now() returns
    pc,             \* where the handler is suspended
    fileKey,        \* const fileKey
    downloadPath,   \* const downloadPath
    stream,         \* which events the S3 read stream and the write stream have emitted
    promise,        \* the promise downloadFileFromS3 returns
    fileSize,       \* size of the file at downloadPath
    fsOps,          \* the file system calls made, in order
    net,            \* the requests sent, in order, each with its response
    accessToken,    \* const accessToken of resolveSharedFolder and of uploadFileToSharedFolder
    listing,        \* response.data.value of the listing request
    sharedFolder,   \* const sharedFolder of the handler
    outcome,        \* what the handler's promise settled with
    inv,            \* SpecTwo: the invocations
    tmp             \* SpecTwo: which invocations have a write stream open on which path

vars == <<event, clock, pc, fileKey, downloadPath, stream, promise, fileSize, fsOps, net,
          accessToken, listing, sharedFolder, outcome, inv, tmp>>

two == <<inv, tmp>>

Invocations == {"A", "B"}

NoPath == [dir |-> "", timestamp |-> 0, ext |-> <<>>]

NoFolder == [driveId |-> Undefined, itemId |-> 0]

NoOutcome == [settled |-> "pending", statusCode |-> 0, message |-> "", error |-> ""]

\* A request as sent; status -1 until the response is in.
Request(kind, by, bearer, name) ==
    [kind |-> kind, by |-> by, bearer |-> bearer, name |-> name, target |-> NoFolder,
     status |-> -1, token |-> Undefined, data |-> ""]

\* The response to the request in flight (the last one sent).
Respond(status, token, data) ==
    [net EXCEPT ![Len(net)] = [@ EXCEPT !.status = status, !.token = token, !.data = data]]

\* The handler's locals before it runs.
HandlerInit ==
    /\ pc = "start"
    /\ fileKey = <<>>
    /\ downloadPath = NoPath
    /\ stream = [readError |-> FALSE, writeError |-> FALSE, finish |-> "no"]
    /\ promise = [state |-> "none", reason |-> "", resolveCalls |-> 0, rejectCalls |-> 0]
    /\ fileSize = 0
    /\ fsOps = <<>>
    /\ net = <<>>
    /\ accessToken = [resolve |-> "", upload |-> ""]
    /\ listing = NoListing
    /\ sharedFolder = NoFolder
    /\ outcome = NoOutcome

Idle == [pc |-> "idle", key |-> <<>>, path |-> NoPath]

\* One invocation: any event; the clock is read once, for the name of the
\* download path, and stands at 0.
Init ==
    /\ event \in Events
    /\ clock = 0
    /\ HandlerInit
    /\ inv = [i \in Invocations |-> Idle]
    /\ tmp = {}

\* ------------------------------------------------------------- handler
\* A catch block that lets the error escape: the handler's promise rejects.
CatchRethrows(message) ==
    [settled |-> "rejected", statusCode |-> 0, message |-> "", error |-> message]

\* The catch block of exports.handler.
Catch(message) ==
    [settled |-> "fulfilled", statusCode |-> 500,
     message |-> "Failed to process shared folder", error |-> message]

\* A throw inside the handler's try block: the handler returns the 500 outcome.
Throw(message) ==
    /\ pc' = "done"
    /\ outcome' = Catch(message)

\* The handler's success return.
Success ==
    [settled |-> "fulfilled", statusCode |-> 200,
     message |-> "File uploaded successfully to shared folder \"" \o FolderName \o "\"",
     error |-> Undefined]

\* The handler from its call to the await of downloadFileFromS3, which has
\* by then opened both streams, piped them and registered its listeners.
HandlerStart ==
    /\ pc = "start"
    /\ IF event.Records = <<>>
       THEN /\ Throw("Cannot read properties of undefined (reading 's3')")
            /\ UNCHANGED <<fileKey, downloadPath, promise, fsOps, net>>
       ELSE LET key == event.Records[1].s3.object.key
                decoded == decodeURIComponent(key)
            IN IF ~decoded.ok
               THEN /\ Throw("URI malformed")
                    /\ UNCHANGED <<fileKey, downloadPath, promise, fsOps, net>>
               ELSE /\ fileKey' = decoded.str
                    /\ downloadPath' = DownloadPath(clock, extname(decoded.str))
                    /\ net' = Append(net, Request("s3get", "download", Undefined, decoded.str))
                    /\ fsOps' = Append(fsOps, [op |-> "createWriteStream", path |-> downloadPath'])
                    /\ promise' = [promise EXCEPT !.state = "pending"]
                    /\ pc' = "await_download"
                    /\ UNCHANGED outcome
    /\ UNCHANGED <<event, clock, stream, fileSize, accessToken, listing, sharedFolder, two>>


\* ------------------------------------------------ downloadFileFromS3
\* reject(error) of the download promise: a promise keeps its first
\* settlement, a later call changes nothing but is still a call.
Reject(reason) ==
    [promise EXCEPT !.rejectCalls = @ + 1,
                    !.state = IF @ = "pending" THEN "rejected" ELSE @,
                    !.reason = IF promise.state = "pending" THEN reason ELSE @]

\* resolve() of the download promise.
Resolve ==
    [promise EXCEPT !.resolveCalls = @ + 1,
                    !.state = IF @ = "pending" THEN "resolved" ELSE @]

StreamsOpen == promise.state # "none"

\* fileStream.on('error'): the S3 read stream fails (before it ended, so
\* before the write stream finished).
ReadStreamError ==
    /\ StreamsOpen
    /\ ~stream.readError
    /\ stream.finish = "no"
    /\ stream' = [stream EXCEPT !.readError = TRUE]
    /\ promise' = Reject("read ECONNRESET")
    /\ UNCHANGED <<event, clock, pc, fileKey, downloadPath, fileSize, fsOps, net, accessToken,
                   listing, sharedFolder, outcome, two>>

\* writeStream.on('error'): the write stream fails, on open, on a write or
\* on close.
WriteStreamError ==
    /\ StreamsOpen
    /\ ~stream.writeError
    /\ stream' = [stream EXCEPT !.writeError = TRUE]
    /\ promise' = Reject("write ENOSPC")
    /\ UNCHANGED <<event, clock, pc, fileKey, downloadPath, fileSize, fsOps, net, accessToken,
                   listing, sharedFolder, outcome, two>>

\* writeStream.on('finish'), up to its await of fs.stat: the read stream
\* ended, pipe ended the write stream and all bytes are flushed.
WriteStreamFinish ==
    /\ StreamsOpen
    /\ stream.finish = "no"
    /\ ~stream.readError
    /\ ~stream.writeError
    /\ \E size \in 0..MaxSize : fileSize' = size
    /\ stream' = [stream EXCEPT !.finish = "stat"]
    /\ fsOps' = Append(fsOps, [op |-> "stat", path |-> downloadPath])
    /\ UNCHANGED <<event, clock, pc, fileKey, downloadPath, promise, net, accessToken,
                   listing, sharedFolder, outcome, two>>

\* The rest of the 'finish' listener: fs.stat answered, resolve() or, when
\* it failed, reject(err).
FinishStat ==
    /\ stream.finish = "stat"
    /\ stream' = [stream EXCEPT !.finish = "done"]
    /\ \E ok \in BOOLEAN :
         promise' = IF ok THEN Resolve ELSE Reject("ENOENT: no such file or directory, stat")
    /\ UNCHANGED <<event, clock, pc, fileKey, downloadPath, fileSize, fsOps, net, accessToken,
                   listing, sharedFolder, outcome, two>>

\* ------------------------------------------- getOneDriveAccessToken
\* What getOneDriveAccessToken makes of the token endpoint's answer.
TokenResult(r) ==
    IF ~AxiosResolves(r.status)
    THEN [ok |-> FALSE, token |-> Undefined, error |-> AxiosErrorMessage(r.status)]
    ELSE IF r.status = 200
    THEN [ok |-> TRUE, token |-> r.access_token, error |-> ""]
    ELSE [ok |-> FALSE, token |-> Undefined, error |-> "Failed to fetch OneDrive access token."]

\* ------------------------------------------------ resolveSharedFolder
\* A search by name alone, which also takes a file of that name.
FindByName(value, folderName) ==
    LET M == {i \in 1..Len(value) : value[i].name = folderName}
    IN IF M = {} THEN 0 ELSE CHOOSE i \in M : \A j \in M : i <= j

\* response.data.value.find(item => item.name === folderName && item.folder):
\* the index of the first match, 0 for undefined.
Find(value, folderName) ==
    LET M == {i \in 1..Len(value) : value[i].name = folderName /\ value[i].folder}
    IN IF M = {} THEN 0 ELSE CHOOSE i \in M : \A j \in M : i <= j

NotFoundMessage == "Shared folder \"" \o FolderName \o "\" not found."

\* A cached token: the one resolveSharedFolder fetched is sent again.
UploadBearerCached(fetched) == accessToken.resolve

\* The bearer token uploadFileToSharedFolder sends after its token request.
UploadBearer(fetched) == fetched

\* ---------------------------------------------------- handler, continued
\* await downloadFileFromS3 returns or throws; then fs.stat is called.
HandlerDownloadSettled ==
    /\ pc = "await_download"
    /\ promise.state \in {"resolved", "rejected"}
    /\ IF promise.state = "rejected"
       THEN /\ Throw(promise.reason)
            /\ UNCHANGED fsOps
       ELSE /\ fsOps' = Append(fsOps, [op |-> "stat", path |-> downloadPath])
            /\ pc' = "await_stat"
            /\ UNCHANGED outcome
    /\ UNCHANGED <<event, clock, fileKey, downloadPath, stream, promise, fileSize, net,
                   accessToken, listing, sharedFolder, two>>

\* The empty check left out.
IsEmptyUnchecked(size) == FALSE

\* fileStats.size === 0
IsEmpty(size) == size = 0

\* await fs.stat returns; the empty check; resolveSharedFolder is called
\* and sends its token request.
HandlerStat ==
    /\ pc = "await_stat"
    /\ \E ok \in BOOLEAN :
         IF ~ok
         THEN Throw("ENOENT: no such file or directory, stat") /\ UNCHANGED net
         ELSE IF IsEmpty(fileSize)
         THEN Throw("Downloaded file is empty.") /\ UNCHANGED net
         ELSE /\ net' = Append(net, Request("token", "resolve", Undefined, <<>>))
              /\ pc' = "resolve_token"
              /\ UNCHANGED outcome
    /\ UNCHANGED <<event, clock, fileKey, downloadPath, stream, promise, fileSize, fsOps,
                   accessToken, listing, sharedFolder, two>>

\* resolveSharedFolder: its token request is answered; the listing request
\* is sent.
ResolveToken ==
    /\ pc = "resolve_token"
    /\ \E r \in TokenResponses :
         LET t == TokenResult(r)
             answered == Respond(r.status, r.access_token, "")
         IN IF ~t.ok
            THEN /\ Throw(t.error)
                 /\ net' = answered
                 /\ UNCHANGED accessToken
            ELSE /\ accessToken' = [accessToken EXCEPT !.resolve = t.token]
                 /\ net' = Append(answered, Request("list", "resolve", t.token, <<>>))
                 /\ pc' = "resolve_list"
                 /\ UNCHANGED outcome
    /\ UNCHANGED <<event, clock, fileKey, downloadPath, stream, promise, fileSize, fsOps,
                   listing, sharedFolder, two>>

\* resolveSharedFolder: the listing is answered and searched; the handler
\* calls uploadFileToSharedFolder, which sends its token request.
ResolveList ==
    /\ pc = "resolve_list"
    /\ \E r \in ListResponses(accessToken.resolve) :
         LET answered == Respond(r.status, Undefined, "")
             found == Find(r.value, FolderName)
         IN IF ~AxiosResolves(r.status)
            THEN /\ Throw(AxiosErrorMessage(r.status))
                 /\ net' = answered
                 /\ UNCHANGED <<listing, sharedFolder>>
            ELSE IF found = 0
            THEN /\ Throw(NotFoundMessage)
                 /\ net' = answered
                 /\ listing' = r.value
                 /\ UNCHANGED sharedFolder
            ELSE /\ listing' = r.value
                 /\ sharedFolder' = [driveId |-> "drive", itemId |-> found]
                 /\ net' = Append(answered, Request("token", "upload", Undefined, <<>>))
                 /\ pc' = "upload_token"
                 /\ UNCHANGED outcome
    /\ UNCHANGED <<event, clock, fileKey, downloadPath, stream, promise, fileSize, fsOps,
                   accessToken, two>>

\* uploadFileToSharedFolder: its token request is answered; fs.readFile is
\* called.
UploadToken ==
    /\ pc = "upload_token"
    /\ \E r \in TokenResponses :
         LET t == TokenResult(r)
         IN /\ net' = Respond(r.status, r.access_token, "")
            /\ IF ~t.ok
               THEN /\ Throw(t.error)
                    /\ UNCHANGED <<accessToken, fsOps>>
               ELSE /\ accessToken' = [accessToken EXCEPT !.upload = UploadBearer(t.token)]
                    /\ fsOps' = Append(fsOps, [op |-> "readFile", path |-> downloadPath])
                    /\ pc' = "upload_read"
                    /\ UNCHANGED outcome
    /\ UNCHANGED <<event, clock, fileKey, downloadPath, stream, promise, fileSize,
                   listing, sharedFolder, two>>

\* The key as the record has it, not decoded.
RemoteNameRaw == event.Records[1].s3.object.key

\* The fileName argument the handler passes to uploadFileToSharedFolder.
RemoteName == fileKey

\* uploadFileToSharedFolder: fs.readFile returns; the PUT is sent.
UploadRead ==
    /\ pc = "upload_read"
    /\ \E ok \in BOOLEAN :
         IF ~ok
         THEN Throw("ENOENT: no such file or directory, open") /\ UNCHANGED net
         ELSE /\ net' = Append(net, [Request("put", "upload", accessToken.upload, RemoteName)
                                       EXCEPT !.target = sharedFolder])
              /\ pc' = "upload_put"
              /\ UNCHANGED outcome
    /\ UNCHANGED <<event, clock, fileKey, downloadPath, stream, promise, fileSize, fsOps,
                   accessToken, listing, sharedFolder, two>>

\* What uploadFileToSharedFolder makes of the answer to its PUT.
UploadResult(r) ==
    IF ~AxiosResolves(r.status)
    THEN [ok |-> FALSE, data |-> "", error |-> AxiosErrorMessage(r.status)]
    ELSE IF r.status = 201 \/ r.status = 200
    THEN [ok |-> TRUE, data |-> r.data, error |-> ""]
    ELSE [ok |-> FALSE, data |-> "", error |-> "Failed to upload file to shared folder."]

\* !uploadSuccess: of the bodies the API sends, the empty one is falsy.
Falsy(data) == data = ""

\* The PUT is answered; the handler checks uploadSuccess and returns.
UploadPut ==
    /\ pc = "upload_put"
    /\ \E r \in PutResponses(accessToken.upload) :
         LET u == UploadResult(r)
         IN /\ net' = Respond(r.status, Undefined, r.data)
            /\ IF ~u.ok
               THEN Throw(u.error)
               ELSE IF Falsy(u.data)
               THEN Throw("Failed to upload file to shared folder on OneDrive.")
               ELSE pc' = "done" /\ outcome' = Success
    /\ UNCHANGED <<event, clock, fileKey, downloadPath, stream, promise, fileSize, fsOps,
                   accessToken, listing, sharedFolder, two>>

Next ==
    \/ HandlerStart
    \/ ReadStreamError
    \/ WriteStreamError
    \/ WriteStreamFinish
    \/ FinishStat
    \/ HandlerDownloadSettled
    \/ HandlerStat
    \/ ResolveToken
    \/ ResolveList
    \/ UploadToken
    \/ UploadRead
    \/ UploadPut

Spec == Init /\ [][Next]_vars


\* ------------------------------------------------- two invocations
\* Invocation i from its call to the creation of its write stream: it
\* reads the clock and opens /tmp/download-<timestamp><extension>.
Invoke(i) ==
    /\ inv[i].pc = "idle"
    /\ \E k \in Keys :
         LET decoded == decodeURIComponent(k)
             path == DownloadPath(clock, extname(decoded.str))
         IN IF ~decoded.ok
            THEN /\ inv' = [inv EXCEPT ![i] = [pc |-> "done", key |-> k, path |-> NoPath]]
                 /\ UNCHANGED tmp
            ELSE /\ inv' = [inv EXCEPT ![i] = [pc |-> "downloading", key |-> k, path |-> path]]
                 /\ tmp' = tmp \cup {[by |-> i, path |-> path]}
    /\ UNCHANGED <<event, clock, pc, fileKey, downloadPath, stream, promise, fileSize, fsOps,
                   net, accessToken, listing, sharedFolder, outcome>>

\* The rest of invocation i: its write stream is closed, the handler
\* returns, the file stays where it is.
Return(i) ==
    /\ inv[i].pc = "downloading"
    /\ inv' = [inv EXCEPT ![i].pc = "done"]
    /\ tmp' = tmp \ {[by |-> i, path |-> inv[i].path]}
    /\ UNCHANGED <<event, clock, pc, fileKey, downloadPath, stream, promise, fileSize, fsOps,
                   net, accessToken, listing, sharedFolder, outcome>>

\* A millisecond passes.
Tick ==
    /\ clock < MaxClock
    /\ clock' = clock + 1
    /\ UNCHANGED <<event, pc, fileKey, downloadPath, stream, promise, fileSize, fsOps,
                   net, accessToken, listing, sharedFolder, outcome, two>>

InitTwo ==
    /\ event = [Records |-> <<>>]
    /\ clock = 0
    /\ HandlerInit
    /\ inv = [i \in Invocations |-> Idle]
    /\ tmp = {}

NextTwo ==
    \/ \E i \in Invocations : Invoke(i)
    \/ \E i \in Invocations : Return(i)
    \/ Tick

SpecTwo == InitTwo /\ [][NextTwo]_vars

\* ------------------------------------------------------------ properties
Sent(kind) == {i \in 1..Len(net) : net[i].kind = kind}

Kinds == [i \in 1..Len(net) |-> net[i].kind]

IsPrefix(a, b) == Len(a) <= Len(b) /\ a = SubSeq(b, 1, Len(a))

Pipeline == <<"s3get", "token", "list", "token", "put">>

RawKey == event.Records[1].s3.object.key

\* Download, empty check, folder resolution and upload all succeeded.
AllSucceeded ==
    /\ promise.state = "resolved"
    /\ fileSize > 0
    /\ sharedFolder # NoFolder
    /\ Kinds = Pipeline
    /\ net[5].status \in {200, 201}

\* C1: the handler's promise is never rejected; once the handler is done
\* its outcome has statusCode 200 or 500; it is 200 only when the download,
\* the empty check, the folder resolution and the upload all succeeded; and
\* a 500 carries the message of the error thrown (the rejection reason of
\* the download, the axios message of the failed request).
C1_Outcome200Or500 ==
    /\ outcome.settled # "rejected"
    /\ (pc = "done") = (outcome.settled = "fulfilled")
    /\ pc = "done" => outcome.statusCode \in {200, 500}
    /\ outcome.statusCode = 200 => AllSucceeded
    /\ outcome.statusCode = 500 => outcome.error \notin {"", Undefined}
    /\ pc = "done" /\ promise.state = "rejected" =>
         outcome.statusCode = 500 /\ outcome.error = promise.reason
    /\ \A i \in 1..Len(net) :
         net[i].status \in {0, 401, 500} =>
           outcome.statusCode = 500 /\ outcome.error = AxiosErrorMessage(net[i].status)

\* The upload was refused and the handler returned the 500 outcome.
C1_Witness ==
    /\ pc = "done"
    /\ Kinds = Pipeline
    /\ net[5].status = 500
    /\ outcome.statusCode = 500

\* C2: the requests of one invocation are sent in the order S3 read, token,
\* listing, token, upload; a token, listing or upload request is sent only
\* after the download promise resolved and the file was found non-empty; the
\* upload is sent only after the listing gave a folder reference; and with a
\* 0-byte file nothing but the S3 read is ever requested.
C2_StepsInOrder ==
    /\ IsPrefix(Kinds, Pipeline)
    /\ Len(net) >= 2 =>
         /\ promise.state = "resolved"
         /\ fileSize > 0
         /\ Len(fsOps) >= 3 /\ fsOps[3] = [op |-> "stat", path |-> downloadPath]
    /\ Len(net) >= 4 => net[3].status = 200 /\ sharedFolder # NoFolder
    /\ Sent("put") # {} => net[4].status = 200
    /\ stream.finish # "no" /\ fileSize = 0 => Len(net) <= 1
    /\ pc \in {"resolve_token", "resolve_list", "upload_token", "upload_read", "upload_put"}
         => fileSize > 0 /\ promise.state = "resolved"

\* A 0-byte download made the handler fail after the S3 read alone.
C2_Witness ==
    /\ pc = "done"
    /\ fileSize = 0
    /\ promise.state = "resolved"
    /\ outcome.error = "Downloaded file is empty."
    /\ Len(net) = 1

\* C3: resolve and reject of the download promise are called at most once
\* between them, whatever the streams emit.
C3_SettledOnce == promise.resolveCalls + promise.rejectCalls <= 1

\* No entry of the listing received has the configured name and is a folder.
NoMatch == ~ \E k \in 1..Len(listing) : listing[k].name = FolderName /\ listing[k].folder

ListingReceived == \E i \in Sent("list") : net[i].status = 200

\* C4: when the listing received holds no folder of the configured name,
\* the handler is done with the 500 outcome carrying the not-found message
\* and no upload request was sent.
C4_NoMatchNoUpload ==
    ListingReceived /\ NoMatch =>
        /\ pc = "done"
        /\ outcome.statusCode = 500
        /\ outcome.error = "Shared folder \"Reports\" not found."
        /\ sharedFolder = NoFolder
        /\ Sent("put") = {}
        /\ Len(net) = 3

\* The listing held a file of the configured name, and nothing else.
C4_Witness ==
    /\ ListingReceived
    /\ listing = <<[name |-> FolderName, folder |-> FALSE]>>
    /\ pc = "done"

\* C5: a token response that is not a success, or is a 200 without an
\* access_token, makes the handler fail, and no listing or upload request
\* carries an absent bearer token.
C5_NoAbsentToken ==
    /\ \A i \in Sent("token") :
         net[i].status # -1 /\ (net[i].status # 200 \/ net[i].token = Undefined) =>
           pc = "done" /\ outcome.statusCode = 500 /\ Len(net) = i
    /\ \A i \in Sent("list") \cup Sent("put") : net[i].bearer # Undefined

\* C6: after a 401 of the token endpoint the outcome is 500 with message
\* "Error processing file" and the error's text, and no unlink was called.
C6_Outcome401 ==
    (\E i \in Sent("token") : net[i].status = 401) =>
        /\ pc = "done"
        /\ outcome.statusCode = 500
        /\ outcome.message = "Error processing file"
        /\ outcome.error = "Request failed with status code 401"
        /\ \A j \in 1..Len(fsOps) : fsOps[j].op # "unlink"

\* C7 as stated: the S3 read uses the decoded key and the upload names the
\* file by the key as the record has it.
C7_RawNameUploaded ==
    /\ \A i \in Sent("s3get") : net[i].name = decodeURIComponent(RawKey).str
    /\ \A i \in Sent("put") : net[i].name = RawKey

\* C7 as amended: the S3 read and the upload both use the decoded key, so
\* no "%" of an escape is left in the remote file name.
C7_DecodedNameUploaded ==
    /\ \A i \in Sent("s3get") : net[i].name = decodeURIComponent(RawKey).str
    /\ \A i \in Sent("put") :
         /\ net[i].name = decodeURIComponent(RawKey).str
         /\ \A k \in 1..Len(net[i].name) : net[i].name[k] # "%"

\* The key held an escape and the upload request was sent.
C7_Witness ==
    /\ Sent("put") # {}
    /\ \E k \in 1..Len(RawKey) : RawKey[k] = "%"

\* C8: an invocation that ends with the 200 outcome sent two token
\* requests, the first by resolveSharedFolder before the listing and the
\* second by uploadFileToSharedFolder before the upload, and the listing
\* and the upload each carry the token their own request was answered with.
C8_TokenPerComponent ==
    outcome.statusCode = 200 =>
        /\ Kinds = Pipeline
        /\ net[2].by = "resolve" /\ net[3].by = "resolve"
        /\ net[3].bearer = net[2].token
        /\ net[4].by = "upload" /\ net[5].by = "upload"
        /\ net[5].bearer = net[4].token

\* A successful run in which the two token requests got different tokens.
C8_Witness ==
    /\ outcome.statusCode = 200
    /\ net[2].token # net[4].token

\* C9: two invocations never have the same download path, and no two write
\* streams are open on one path.
C9_PathsDiffer ==
    /\ \A i, j \in Invocations :
         i # j /\ inv[i].path # NoPath /\ inv[j].path # NoPath => inv[i].path # inv[j].path
    /\ \A a, b \in tmp : a # b => a.path # b.path

\* C10: when the upload was answered 200 or 201 the handler's outcome is
\* the 200 outcome, whatever the response body.
C10_UploadedMeans200 ==
    \A i \in Sent("put") :
        net[i].status \in {200, 201} => outcome = Success

====
